---- MODULE Spec2Model ----
(***************************************************************************)
(* GitSync (pym/portage/sync/modules/git/git.py): the git sync module of   *)
(* portage, driven through NewBase.sync.  One synchronize call is a walk   *)
(* through the methods exists/new/update/sync_uri_check/nuke_repo/         *)
(* sync_branch_update/simple_update; every external command the methods    *)
(* spawn is recorded, in order, in log.                                    *)
(*                                                                         *)
(* A Python str is a sequence of one-character strings, so that split,     *)
(* strip, startswith, slicing and "in" are computed as Python computes     *)
(* them.  Python's None is the one-element sequence <<"None">>, which no   *)
(* str equals because every element of a str is a single character.        *)
(***************************************************************************)
EXTENDS Integers, Sequences, FiniteSets, TLC

\* ------------------------------------------------------------------ bounds
\* exit codes of the spawned commands range over 0..MaxExit
MaxExit == 2
\* head revisions of the mirror range over 1..MaxRev
MaxRev == 2

\* ------------------------------------------------------- program constants
\* os.EX_OK
EX_OK == 0
\* os.EX_NOTFOUND, on the platforms whose C library defines it
EX_NOTFOUND == 79
\* the slice index of sync_uri[6:]
FilePrefixCut == 6

None == <<"None">>

\* ------------------------------------------------------------ Python str
\* s.startswith(p)
startswith(s, p) == Len(s) >= Len(p) /\ SubSeq(s, 1, Len(p)) = p

\* s[n:]
slice_from(s, n) == SubSeq(s, n + 1, Len(s))

\* sub in s
contains(s, sub) ==
    \E i \in 1..(Len(s) - Len(sub) + 1) : SubSeq(s, i, i + Len(sub) - 1) = sub

\* index of the first element of s in set cs, Len(s) + 1 when there is none
RECURSIVE first_in(_, _, _)
first_in(s, cs, i) ==
    IF i > Len(s) THEN Len(s) + 1
    ELSE IF s[i] \in cs THEN i
    ELSE first_in(s, cs, i + 1)

\* s.split(sep) for a one-character sep: empty pieces are kept, "" gives [""]
RECURSIVE split(_, _)
split(s, sep) ==
    LET i == first_in(s, {sep}, 1)
    IN  IF i > Len(s) THEN <<s>>
        ELSE <<SubSeq(s, 1, i - 1)>> \o split(SubSeq(s, i + 1, Len(s)), sep)

Whitespace == {" ", "\t", "\n"}

\* s.split(): pieces between runs of whitespace, no empty piece, "" gives []
RECURSIVE split_ws(_)
split_ws(s) ==
    IF s = <<>> THEN <<>>
    ELSE IF s[1] \in Whitespace THEN split_ws(Tail(s))
    ELSE LET i == first_in(s, Whitespace, 1)
         IN  <<SubSeq(s, 1, i - 1)>> \o split_ws(SubSeq(s, i, Len(s)))

\* s.strip()
RECURSIVE strip(_)
strip(s) ==
    IF s = <<>> THEN s
    ELSE IF s[1] \in Whitespace THEN strip(Tail(s))
    ELSE IF s[Len(s)] \in Whitespace THEN strip(SubSeq(s, 1, Len(s) - 1))
    ELSE s

\* the str literals of the source
S_file == <<"f", "i", "l", "e", ":", "/", "/">>
S_origin == <<"o", "r", "i", "g", "i", "n">>
S_fetch == <<"(", "f", "e", "t", "c", "h", ")">>
S_push == <<"(", "p", "u", "s", "h", ")">>
S_star == <<"*">>
S_slash == <<"/">>
S_HEAD == <<"H", "E", "A", "D">>

\* ------------------------------------------------- the descriptor's values
\* sync-uri values: two remote addresses and one with the file:// scheme
U_a == <<"u">>
U_b == <<"v">>
U_file == S_file \o <<"/", "r">>
Uris == {U_a, U_b, U_file}

\* branch names; BranchOrder is their order in git's listing (by name)
B_dev == <<"d", "e", "v">>
B_feat == <<"f", "/", "x">>
B_main == <<"m", "a", "i", "n">>
BranchOrder == <<B_dev, B_feat, B_main>>
Branches == {BranchOrder[i] : i \in 1..Len(BranchOrder)}

\* sync-branch values
SyncBranches == {B_dev, B_main}

\* sync-depth, as the digits "%d" prints
Depths == {<<"1">>}

\* module_specific_options: no extra options, or both extra option strings
X_clone == <<"-", "-", "n", "o", "-", "t", "a", "g", "s">>
X_pull == <<"-", "-", "f", "f", "-", "o", "n", "l", "y">>
ModuleOptions ==
    { [clone |-> None, pull |-> None], [clone |-> X_clone, pull |-> X_pull] }

Location == <<"/", "m">>

\* self.repo
Repos ==
    [ location : {Location},
      sync_uri : Uris \cup {None},
      sync_branch : SyncBranches \cup {None},
      sync_depth : Depths \cup {None},
      auto_sync_enforcing : {"yes", "no", "None"},
      module_specific_options : ModuleOptions ]

\* exit codes of the commands whose exit code is returned or logged by the
\* source (clone, pull, rm -rf)
ExitCodes == 0..MaxExit
\* exit codes of the commands run through subprocess.check_output, which tells
\* zero from non-zero and nothing else
ProbeExits == {0, 1}
Revs == 1..MaxRev


\* ------------------------------------------------------------------ state
VARIABLES
    repo,          \* self.repo, the descriptor of the call
    settings,      \* self.settings
    fs,            \* the mirror on disk: location, location/.git, origin, HEAD
    pc,            \* the method the call is in, "idle" between calls
    existed,       \* location/.git was there when the call started
    log,           \* the commands spawned by the current call, in order
    result,        \* how the current call ended: returned (status, changed) or raised
    mkdir,         \* what os.makedirs did in new(): "skipped", "ok" or "IOError"
    remotes,       \* the remotes git listed to sync_uri_check
    uri_ok,        \* the value sync_uri_check returned
    branches,      \* the branches git listed to sync_branch_update
    previous_rev,  \* simple_update's previous_rev
    current_rev,   \* simple_update's current_rev
    cloned         \* the preceding call ended with a successful clone

vars == <<repo, settings, fs, pc, existed, log, result, mkdir, remotes, uri_ok,
          branches, previous_rev, current_rev, cloned>>

\* a (status, changed) tuple returned, an exception raised, or still running
Ret(status, changed) ==
    [kind |-> "return", status |-> status, changed |-> changed, exc |-> "none"]
Raise(exc) ==
    [kind |-> "raise", status |-> 0, changed |-> FALSE, exc |-> exc]
Running ==
    [kind |-> "running", status |-> 0, changed |-> FALSE, exc |-> "none"]

\* the options of a command line; only clone and pull take any
NoOpts ==
    [quiet |-> FALSE, depth |-> None, no_single_branch |-> FALSE,
     extra |-> None, branch |-> None]

\* one spawned command: its name, its argument (the URI of clone, the branch
\* of checkout, the directory of rm -rf), its options and its exit code
Cmd(cmd, arg, opts, exitcode) ==
    [cmd |-> cmd, arg |-> arg, opts |-> opts, exit |-> exitcode]

\* the mirror before any clone: no directory, or a directory without .git
NoMirror(loc) == [loc |-> loc, git |-> FALSE, origin |-> None, head |-> 0]

\* the states of the mirror a call can find on disk
Mirrors ==
    {NoMirror(l) : l \in BOOLEAN}
    \cup [loc : {TRUE}, git : {TRUE}, origin : Uris \cup {None}, head : {1}]

NoBranches == [cur |-> None, locals |-> {}, tracking |-> {}]

Init ==
    /\ repo \in Repos
    /\ settings \in [PORTAGE_QUIET : {"1", "None"}]
    /\ fs \in Mirrors
    /\ pc = "idle"
    /\ existed = FALSE
    /\ log = <<>>
    /\ result = Running
    /\ mkdir = "skipped"
    /\ remotes = <<>>
    /\ uri_ok = "unset"
    /\ branches = NoBranches
    /\ previous_rev = None
    /\ current_rev = None
    /\ cloned = FALSE

\* ------------------------------------------------------------ NewBase.sync
\* an exists() that tests the directory instead of its .git entry
exists_tests_location == fs.loc

\* GitSync.exists: os.path.exists(os.path.join(self.repo.location, '.git'))
exists == fs.git

\* the last command of the call that just ended was a clone that exited 0
EndedInClone ==
    /\ result.kind = "return"
    /\ log # <<>>
    /\ log[Len(log)].cmd = "clone"
    /\ log[Len(log)].exit = EX_OK

\* synchronize: clone when the mirror does not exist, update when it does
sync ==
    /\ pc = "idle"
    /\ cloned' = EndedInClone
    /\ existed' = fs.git
    /\ pc' = IF exists THEN "update" ELSE "new"
    /\ log' = <<>>
    /\ result' = Running
    /\ mkdir' = "skipped"
    /\ remotes' = <<>>
    /\ uri_ok' = "unset"
    /\ branches' = NoBranches
    /\ previous_rev' = None
    /\ current_rev' = None
    /\ UNCHANGED <<repo, settings, fs>>

\* ------------------------------------------------------------- GitSync.new
\* the URI new() puts on the clone command line
clone_uri(sync_uri) ==
    IF startswith(sync_uri, S_file) THEN slice_from(sync_uri, FilePrefixCut)
    ELSE sync_uri

\* git_cmd_opts with --no-single-branch added only to a clone of a branch
clone_opts_branch_only ==
    [quiet |-> settings.PORTAGE_QUIET = "1",
     depth |-> repo.sync_depth,
     no_single_branch |-> repo.sync_depth # None /\ repo.sync_branch # None,
     extra |-> repo.module_specific_options.clone,
     branch |-> repo.sync_branch]

\* git_cmd_opts as new() builds it
clone_opts ==
    [quiet |-> settings.PORTAGE_QUIET = "1",
     depth |-> repo.sync_depth,
     no_single_branch |-> repo.sync_depth # None,
     extra |-> repo.module_specific_options.clone,
     branch |-> repo.sync_branch]

\* what new() returns for the exit code of the clone
new_outcome(exitcode) ==
    IF exitcode # EX_OK THEN Ret(exitcode, FALSE) ELSE Ret(EX_OK, TRUE)

\* new(): create the directory when missing, then clone into it.  made is
\* whether os.makedirs succeeds, exitcode the clone's exit code, rev the head
\* a successful clone checks out.  A failed os.makedirs raises OSError, which
\* is the class IOError names (Python 3.3 and later), so line 46 catches it.
\* git refuses to clone into a directory that still holds a repository.
new(made, exitcode, rev) ==
    /\ pc = "new"
    /\ pc' = "idle"
    /\ fs.git => exitcode # EX_OK
    /\ IF ~fs.loc /\ ~made
       THEN /\ mkdir' = "IOError"
            /\ result' = Ret(1, FALSE)
            /\ UNCHANGED <<fs, log>>
       ELSE /\ mkdir' = IF fs.loc THEN "skipped" ELSE "ok"
            /\ IF repo.sync_uri = None
               THEN \* None.startswith
                    /\ result' = Raise("AttributeError")
                    /\ fs' = [fs EXCEPT !.loc = TRUE]
                    /\ UNCHANGED log
               ELSE /\ log' = Append(log, Cmd("clone", clone_uri(repo.sync_uri),
                                             clone_opts, exitcode))
                    /\ result' = new_outcome(exitcode)
                    /\ fs' = IF exitcode = EX_OK
                             THEN [loc |-> TRUE, git |-> TRUE,
                                   origin |-> clone_uri(repo.sync_uri), head |-> rev]
                             ELSE [fs EXCEPT !.loc = TRUE]
    /\ UNCHANGED <<repo, settings, existed, remotes, uri_ok, branches,
                   previous_rev, current_rev, cloned>>

\* ---------------------------------------------------- GitSync.simple_update
Hex == <<"a", "b", "c", "d", "e", "f">>

\* the bytes git rev-list --max-count=1 HEAD prints for head revision h
rev_list(h) == <<Hex[h], "\n">>

\* git_cmd_opts as simple_update() builds it
pull_opts ==
    [NoOpts EXCEPT !.quiet = settings.PORTAGE_QUIET = "1",
                   !.extra = repo.module_specific_options.pull]

\* a pull that always reports a change
rev_changed_always(prev, cur) == TRUE

\* the changed flag of a successful pull
rev_changed(prev, cur) == cur # prev

\* a simple_update() that runs a failed pull a second time
simple_update_retries_pull(rc1, exitcode, rev, rc2) ==
    /\ pc = "simple_update"
    /\ pc' = "idle"
    /\ fs.git \/ rc1 # 0
    /\ LET c1 == Cmd("rev-list", None, NoOpts, rc1)
           c2 == Cmd("pull", None, pull_opts, exitcode)
           c3 == Cmd("rev-list", None, NoOpts, rc2)
       IN  IF rc1 # 0
           THEN /\ log' = log \o <<c1>>
                /\ result' = Raise("CalledProcessError")
                /\ UNCHANGED <<fs, previous_rev, current_rev>>
           ELSE /\ previous_rev' = rev_list(fs.head)
                /\ IF exitcode # EX_OK
                   THEN /\ log' = log \o <<c1, c2, c2>>
                        /\ result' = Ret(exitcode, FALSE)
                        /\ UNCHANGED <<fs, current_rev>>
                   ELSE /\ fs' = [fs EXCEPT !.head = rev]
                        /\ log' = log \o <<c1, c2, c3>>
                        /\ IF rc2 # 0
                           THEN /\ result' = Raise("CalledProcessError")
                                /\ UNCHANGED current_rev
                           ELSE /\ current_rev' = rev_list(rev)
                                /\ result' = Ret(EX_OK,
                                       rev_changed(rev_list(fs.head), rev_list(rev)))
    /\ UNCHANGED <<repo, settings, existed, mkdir, remotes, uri_ok, branches, cloned>>

\* a simple_update() that queries the head again after a failed pull
simple_update_requeries(rc1, exitcode, rev, rc2) ==
    /\ pc = "simple_update"
    /\ pc' = "idle"
    /\ fs.git \/ rc1 # 0
    /\ LET c1 == Cmd("rev-list", None, NoOpts, rc1)
           c2 == Cmd("pull", None, pull_opts, exitcode)
           c3 == Cmd("rev-list", None, NoOpts, rc2)
       IN  IF rc1 # 0
           THEN /\ log' = log \o <<c1>>
                /\ result' = Raise("CalledProcessError")
                /\ UNCHANGED <<fs, previous_rev, current_rev>>
           ELSE /\ previous_rev' = rev_list(fs.head)
                /\ IF exitcode # EX_OK
                   THEN /\ log' = log \o <<c1, c2, c3>>
                        /\ result' = Ret(exitcode, FALSE)
                        /\ UNCHANGED <<fs, current_rev>>
                   ELSE /\ fs' = [fs EXCEPT !.head = rev]
                        /\ log' = log \o <<c1, c2, c3>>
                        /\ IF rc2 # 0
                           THEN /\ result' = Raise("CalledProcessError")
                                /\ UNCHANGED current_rev
                           ELSE /\ current_rev' = rev_list(rev)
                                /\ result' = Ret(EX_OK,
                                       rev_changed(rev_list(fs.head), rev_list(rev)))
    /\ UNCHANGED <<repo, settings, existed, mkdir, remotes, uri_ok, branches, cloned>>

\* simple_update(): rev-list, pull, rev-list.  rc1 and rc2 are the exit codes
\* of the two rev-list calls, exitcode the pull's, rev the head after a
\* successful pull.  check_output raises CalledProcessError on a non-zero
\* exit and nothing catches it.  Outside a repository git rev-list fails.
simple_update(rc1, exitcode, rev, rc2) ==
    /\ pc = "simple_update"
    /\ pc' = "idle"
    /\ fs.git \/ rc1 # 0
    /\ LET c1 == Cmd("rev-list", None, NoOpts, rc1)
           c2 == Cmd("pull", None, pull_opts, exitcode)
           c3 == Cmd("rev-list", None, NoOpts, rc2)
       IN  IF rc1 # 0
           THEN /\ log' = log \o <<c1>>
                /\ result' = Raise("CalledProcessError")
                /\ UNCHANGED <<fs, previous_rev, current_rev>>
           ELSE /\ previous_rev' = rev_list(fs.head)
                /\ IF exitcode # EX_OK
                   THEN /\ log' = log \o <<c1, c2>>
                        /\ result' = Ret(exitcode, FALSE)
                        /\ UNCHANGED <<fs, current_rev>>
                   ELSE /\ fs' = [fs EXCEPT !.head = rev]
                        /\ log' = log \o <<c1, c2, c3>>
                        /\ IF rc2 # 0
                           THEN /\ result' = Raise("CalledProcessError")
                                /\ UNCHANGED current_rev
                           ELSE /\ current_rev' = rev_list(rev)
                                /\ result' = Ret(EX_OK,
                                       rev_changed(rev_list(fs.head), rev_list(rev)))
    /\ UNCHANGED <<repo, settings, existed, mkdir, remotes, uri_ok, branches, cloned>>

\* ---------------------------------------------------- GitSync.sync_uri_check
S_up == <<"u", "p">>

\* the remote listings git can give for a mirror whose origin is at url
\* (None: no origin): origin alone, or with a second remote before or after it
RemoteConfigs(url) ==
    LET o == IF url = None THEN <<>> ELSE <<[name |-> S_origin, url |-> url]>>
        u == <<[name |-> S_up, url |-> U_b]>>
    IN  {o, u \o o, o \o u}

\* git remote -v prints a (fetch) and a (push) line for each remote
RECURSIVE remote_v(_)
remote_v(rs) ==
    IF rs = <<>> THEN <<>>
    ELSE LET r == Head(rs)
         IN  r.name \o <<"\t">> \o r.url \o <<" ">> \o S_fetch \o <<"\n">>
             \o r.name \o <<"\t">> \o r.url \o <<" ">> \o S_push \o <<"\n">>
             \o remote_v(Tail(rs))

\* the loop of sync_uri_check over rawremote.split("\n") from line i on:
\* "True" or "False" at the first origin (fetch) line, "None" when the loop
\* ends, "IndexError" when rlist[0] or rlist[2] does not exist
RECURSIVE remote_loop(_, _, _)
remote_loop(lines, i, sync_uri) ==
    IF i > Len(lines) THEN "None"
    ELSE LET rlist == split_ws(lines[i])
         IN  IF Len(rlist) < 1 THEN "IndexError"
             ELSE IF rlist[1] # S_origin THEN remote_loop(lines, i + 1, sync_uri)
             ELSE IF Len(rlist) < 3 THEN "IndexError"
             ELSE IF rlist[3] # S_fetch THEN remote_loop(lines, i + 1, sync_uri)
             ELSE IF sync_uri = rlist[2] THEN "True" ELSE "False"

\* what sync_uri_check makes of the exit code and output of git remote -v
uri_check(exitcode, rawremote, sync_uri) ==
    IF exitcode # 0 THEN "False"
    ELSE remote_loop(split(rawremote, "\n"), 1, sync_uri)

\* uri_check over the listings and URIs of the model, computed once
Origins == Uris \cup {clone_uri(u) : u \in Uris} \cup {None}
AllRemoteConfigs == UNION {RemoteConfigs(u) : u \in Origins}
UriCheck ==
    [exitcode \in ProbeExits, rs \in AllRemoteConfigs, sync_uri \in Uris |->
        uri_check(exitcode, remote_v(rs), sync_uri)]

\* sync_uri_check(): git remote -v exits with exitcode and lists rs.  Outside
\* a repository git remote fails.
sync_uri_check(exitcode, rs) ==
    /\ pc = "sync_uri_check"
    /\ fs.git \/ exitcode # 0
    /\ log' = Append(log, Cmd("remote -v", None, NoOpts, exitcode))
    /\ remotes' = rs
    /\ LET r == UriCheck[exitcode, rs, repo.sync_uri]
       IN  IF r = "IndexError"
           THEN /\ result' = Raise("IndexError")
                /\ pc' = "idle"
                /\ UNCHANGED uri_ok
           ELSE /\ uri_ok' = r
                /\ pc' = "update_checked"
                /\ UNCHANGED result
    /\ UNCHANGED <<repo, settings, fs, existed, mkdir, branches, previous_rev,
                   current_rev, cloned>>

\* --------------------------------------------------------- GitSync.nuke_repo
\* a nuke_repo() whose failure ends the call with the exit code of rm
nuke_repo_aborts(exitcode, kept) ==
    /\ pc = "nuke_repo"
    /\ pc' = IF exitcode = EX_OK THEN "new" ELSE "idle"
    /\ result' = IF exitcode = EX_OK THEN result ELSE Ret(exitcode, FALSE)
    /\ log' = Append(log, Cmd("rm -rf", repo.location, NoOpts, exitcode))
    /\ fs' = IF exitcode = EX_OK THEN NoMirror(FALSE)
             ELSE IF kept THEN fs
             ELSE NoMirror(TRUE)
    /\ UNCHANGED <<repo, settings, existed, mkdir, remotes, uri_ok,
                   branches, previous_rev, current_rev, cloned>>

\* nuke_repo(): rm -rf location.  A failed removal leaves the directory, with
\* or without its .git (kept).  The (exitcode, bool) it returns is dropped by
\* its caller.
nuke_repo(exitcode, kept) ==
    /\ pc = "nuke_repo"
    /\ pc' = "new"
    /\ log' = Append(log, Cmd("rm -rf", repo.location, NoOpts, exitcode))
    /\ fs' = IF exitcode = EX_OK THEN NoMirror(FALSE)
             ELSE IF kept THEN fs
             ELSE NoMirror(TRUE)
    /\ UNCHANGED <<repo, settings, existed, result, mkdir, remotes, uri_ok,
                   branches, previous_rev, current_rev, cloned>>

\* ------------------------------------------------------------ GitSync.update
\* lines 195-197: reconcile the branch when one is configured, else update
branch_or_update ==
    IF repo.sync_branch # None /\ repo.location # None
    THEN "sync_branch_update"
    ELSE "simple_update"

\* an update() that reconciles the branch before it looks at the URI
update_entry_branch_first ==
    IF repo.auto_sync_enforcing = "no" \/ repo.auto_sync_enforcing = "None"
    THEN "simple_update"
    ELSE IF repo.sync_branch # None /\ repo.location # None
    THEN "sync_branch_update"
    ELSE IF repo.sync_uri # None /\ repo.location # None
    THEN "sync_uri_check"
    ELSE "simple_update"

\* an update() that takes only "no" for trust, and enforces when the option is unset
update_entry_unset_enforces ==
    IF repo.auto_sync_enforcing = "no"
    THEN "simple_update"
    ELSE IF repo.sync_uri # None /\ repo.location # None
    THEN "sync_uri_check"
    ELSE branch_or_update

\* where update() goes first
update_entry ==
    IF repo.auto_sync_enforcing = "no" \/ repo.auto_sync_enforcing = "None"
    THEN "simple_update"
    ELSE IF repo.sync_uri # None /\ repo.location # None
    THEN "sync_uri_check"
    ELSE branch_or_update

\* an update() that removes the mirror whatever sync_uri_check returns
update_after_check_always_nukes(checked) == "nuke_repo"

\* an update() that re-clones over the mirror without removing it
update_after_check_keeps_mirror(checked) ==
    IF checked # "True" THEN "new" ELSE branch_or_update

\* where update() goes when sync_uri_check has returned checked
update_after_check(checked) ==
    IF checked # "True" THEN "nuke_repo" ELSE branch_or_update

update ==
    /\ pc = "update"
    /\ pc' = update_entry
    /\ UNCHANGED <<repo, settings, fs, existed, log, result, mkdir, remotes, uri_ok,
                   branches, previous_rev, current_rev, cloned>>

\* update() from line 190 on: not self.sync_uri_check() sends it to
\* nuke_repo() and new()
update_checked ==
    /\ pc = "update_checked"
    /\ pc' = update_after_check(uri_ok)
    /\ remotes' = <<>>
    /\ UNCHANGED <<repo, settings, fs, existed, log, result, mkdir, uri_ok,
                   branches, previous_rev, current_rev, cloned>>

\* ------------------------------------------------ GitSync.sync_branch_update
S_remotes_origin ==
    <<"r", "e", "m", "o", "t", "e", "s", "/", "o", "r", "i", "g", "i", "n", "/">>
S_arrow == <<"-", ">">>

\* the branch listings git can give: the checked-out branch cur among the
\* local branches, and the remote-tracking branches of origin
TrackingSets == {{}, {B_main}, {B_dev, B_main}}
BranchListings ==
    { b \in [cur : Branches, locals : SUBSET Branches, tracking : TrackingSets] :
        b.cur \in b.locals }

\* the lines of the local branches from BranchOrder[i] on, "* " before the
\* checked-out one
RECURSIVE local_lines(_, _)
local_lines(b, i) ==
    IF i > Len(BranchOrder) THEN <<>>
    ELSE LET n == BranchOrder[i]
         IN  (IF n \notin b.locals THEN <<>>
              ELSE (IF n = b.cur THEN <<"*", " ">> ELSE <<" ", " ">>) \o n \o <<"\n">>)
             \o local_lines(b, i + 1)

\* the lines of the remote-tracking branches from BranchOrder[i] on
RECURSIVE tracking_lines(_, _)
tracking_lines(b, i) ==
    IF i > Len(BranchOrder) THEN <<>>
    ELSE LET n == BranchOrder[i]
         IN  (IF n \notin b.tracking THEN <<>>
              ELSE <<" ", " ">> \o S_remotes_origin \o n \o <<"\n">>)
             \o tracking_lines(b, i + 1)

\* git branch --all: the local branches, then remotes/origin/HEAD and the
\* remote-tracking branches, each list sorted by name
branch_all(b) ==
    local_lines(b, 1)
    \o (IF b.tracking = {} THEN <<>>
        ELSE <<" ", " ">> \o S_remotes_origin \o S_HEAD \o <<" ">> \o S_arrow
             \o <<" ">> \o S_origin \o S_slash \o B_main \o <<"\n">>)
    \o tracking_lines(b, 1)

\* the loop of sync_branch_update over rawbranch.split("\n") from line i on:
\* "at_branch" (line 106), "checkout" (line 109), "not_found" when the loop
\* ends (line 129), "IndexError" when blist[0] or blist[1] does not exist,
\* "AttributeError" at blist.split("/") (line 117), blist being a list
RECURSIVE branch_loop(_, _, _)
branch_loop(lines, i, sync_branch) ==
    IF i > Len(lines) THEN "not_found"
    ELSE LET blist == split_ws(strip(lines[i]))
         IN  IF Len(blist) < 1 THEN "IndexError"
             ELSE IF blist[1] = S_star
             THEN IF Len(blist) < 2 THEN "IndexError"
                  ELSE IF blist[2] = sync_branch THEN "at_branch"
                  ELSE branch_loop(lines, i + 1, sync_branch)
             ELSE IF ~contains(blist[1], S_slash)
             THEN IF blist[1] = sync_branch THEN "checkout"
                  ELSE branch_loop(lines, i + 1, sync_branch)
             ELSE IF ~contains(blist[1], S_HEAD) /\ contains(blist[1], S_slash)
             THEN "AttributeError"
             ELSE branch_loop(lines, i + 1, sync_branch)

\* what sync_branch_update does after git branch --all: "EX_NOTFOUND" when the
\* command failed, else the outcome of the loop over its output
branch_check(exitcode, rawbranch, sync_branch) ==
    IF exitcode # 0 THEN "EX_NOTFOUND"
    ELSE branch_loop(split(rawbranch, "\n"), 1, sync_branch)

\* branch_check over the listings and branches of the model, computed once
BranchCheck ==
    [exitcode \in ProbeExits, b \in BranchListings \cup {NoBranches},
     sync_branch \in SyncBranches |->
        branch_check(exitcode, branch_all(b), sync_branch)]

\* sync_branch_update(): git branch --all exits with exitcode and lists b;
\* coexit is the exit code of the checkout, when one is run.  os.EX_NOTFOUND
\* exists only where the platform defines it (defined); elsewhere the return
\* statement of line 101 raises AttributeError.  Outside a repository git
\* branch fails.
sync_branch_update(exitcode, b, defined, coexit) ==
    /\ pc = "sync_branch_update"
    /\ fs.git \/ exitcode # 0
    /\ branches' = b
    /\ LET probe == Cmd("branch --all", None, NoOpts, exitcode)
           r == BranchCheck[exitcode, b, repo.sync_branch]
       IN  CASE r = "EX_NOTFOUND" ->
                  /\ log' = Append(log, probe)
                  /\ result' = IF defined THEN Ret(EX_NOTFOUND, TRUE)
                               ELSE Raise("AttributeError")
                  /\ pc' = "idle"
             [] r \in {"IndexError", "AttributeError"} ->
                  /\ log' = Append(log, probe)
                  /\ result' = Raise(r)
                  /\ pc' = "idle"
             [] r = "checkout" ->
                  /\ log' = log \o <<probe, Cmd("checkout", repo.sync_branch,
                                                NoOpts, coexit)>>
                  /\ pc' = "simple_update"
                  /\ UNCHANGED result
             [] OTHER ->
                  /\ log' = Append(log, probe)
                  /\ pc' = "simple_update"
                  /\ UNCHANGED result
    /\ UNCHANGED <<repo, settings, fs, existed, mkdir, remotes, uri_ok,
                   previous_rev, current_rev, cloned>>

\* ---------------------------------------------------------- specification
\* The inputs of each method are drawn only where the method reads them: a
\* failed command has no output, a command that is not run has no exit code.
Next ==
    \/ sync
    \/ \E made \in (IF fs.loc THEN {TRUE} ELSE BOOLEAN) :
       \E exitcode \in (IF made /\ repo.sync_uri # None THEN ExitCodes ELSE {1}) :
       \E rev \in (IF exitcode = EX_OK THEN Revs ELSE {1}) :
          new(made, exitcode, rev)
    \/ update
    \/ /\ pc = "sync_uri_check"
       /\ \E exitcode \in ProbeExits :
          \E rs \in (IF exitcode = 0 THEN RemoteConfigs(fs.origin) ELSE {<<>>}) :
             sync_uri_check(exitcode, rs)
    \/ update_checked
    \/ \E exitcode \in ExitCodes :
       \E kept \in (IF exitcode = EX_OK THEN {FALSE} ELSE BOOLEAN) :
          nuke_repo(exitcode, kept)
    \/ /\ pc = "sync_branch_update"
       /\ \E exitcode \in ProbeExits :
          \E b \in (IF exitcode = 0 THEN BranchListings ELSE {NoBranches}) :
          \E defined \in (IF exitcode = 0 THEN {FALSE} ELSE BOOLEAN) :
          \E coexit \in (IF BranchCheck[exitcode, b, repo.sync_branch] = "checkout"
                         THEN ProbeExits ELSE {0}) :
             sync_branch_update(exitcode, b, defined, coexit)
    \/ \E rc1 \in ProbeExits :
       \E exitcode \in (IF rc1 = 0 THEN ExitCodes ELSE {1}) :
       \E rev \in (IF rc1 = 0 /\ exitcode = EX_OK THEN Revs ELSE {1}) :
       \E rc2 \in (IF rc1 = 0 /\ exitcode = EX_OK THEN ProbeExits ELSE {0}) :
          simple_update(rc1, exitcode, rev, rc2)

Spec == Init /\ [][Next]_vars

\* ------------------------------------------------------------------ claims
\* the call has ended, by returning or by raising
Ended == pc = "idle" /\ result.kind # "running"

\* command c was spawned in the current call
Issued(c) == \E i \in 1..Len(log) : log[i].cmd = c

\* l is one run of Update (rev-list, pull, rev-list) and result is what that
\* run gives: the pull's exit code with changed = false, or 0 with the
\* comparison of the two revisions, or the error of a failed rev-list
UpdateRan(l) ==
    /\ Len(l) \in 1..3
    /\ l[1].cmd = "rev-list"
    /\ IF l[1].exit # 0
       THEN Len(l) = 1 /\ result = Raise("CalledProcessError")
       ELSE /\ Len(l) >= 2
            /\ l[2].cmd = "pull"
            /\ IF l[2].exit # 0
               THEN Len(l) = 2 /\ result = Ret(l[2].exit, FALSE)
               ELSE /\ Len(l) = 3
                    /\ l[3].cmd = "rev-list"
                    /\ IF l[3].exit # 0
                       THEN result = Raise("CalledProcessError")
                       ELSE result = Ret(0, current_rev # previous_rev)

\* C1 (as claimed): synchronize always ends by returning a (status, changed)
\* outcome; no failure is raised as an exception past synchronize.
C1_NeverRaises == result.kind # "raise"

\* the enforcing call on an existing mirror whose URI check came back with a
\* mismatch (False) or with nothing (None)
C2_Case ==
    /\ Ended
    /\ existed
    /\ repo.auto_sync_enforcing = "yes"
    /\ repo.sync_uri # None
    /\ repo.location # None
    /\ uri_ok \in {"False", "None"}

\* the commands of the call are remote -v, rm -rf location and then clone of
\* the descriptor's URI, and the clone's outcome is returned
C2_RemovedThenCloned ==
    /\ Len(log) = 3
    /\ log[1].cmd = "remote -v"
    /\ log[2].cmd = "rm -rf"
    /\ log[2].arg = repo.location
    /\ log[3].cmd = "clone"
    /\ log[3].arg = clone_uri(repo.sync_uri)
    /\ log[3].opts.branch = repo.sync_branch
    /\ result = IF log[3].exit = 0 THEN Ret(0, TRUE) ELSE Ret(log[3].exit, FALSE)

\* C2 (as claimed): on a URI mismatch in enforcing mode the mirror is removed
\* and only afterwards a clone of the configured URI is issued, whose outcome
\* is returned; no pull, branch listing or checkout is issued.
C2_MismatchRemovesThenClones == C2_Case => C2_RemovedThenCloned

\* C2 (amended): on a URI mismatch in enforcing mode the mirror is removed
\* first; then, unless re-creating the location directory fails, a clone of
\* the configured URI is issued and its outcome returned; when the creation
\* fails no clone is issued and (1, false) is returned.  No pull, branch
\* listing or checkout is issued either way.
C2_MismatchRemovesThenClonesUnlessMkdirFails ==
    C2_Case =>
        IF mkdir = "IOError"
        THEN /\ Len(log) = 2
             /\ log[1].cmd = "remote -v"
             /\ log[2].cmd = "rm -rf"
             /\ log[2].arg = repo.location
             /\ result = Ret(1, FALSE)
        ELSE C2_RemovedThenCloned

\* a mismatch was found, the mirror removed and the clone succeeded
C2_Witness ==
    /\ C2_Case
    /\ uri_ok = "False"
    /\ Len(log) = 3
    /\ log[3].cmd = "clone"
    /\ log[3].exit = 0
    /\ result = Ret(0, TRUE)

\* the call on an existing mirror with auto-sync-enforcing "no" or unset
C3_Case == existed /\ repo.auto_sync_enforcing \in {"no", "None"}

\* C3: with the mirror present and auto-sync-enforcing "no" or unset, the call
\* issues no remote -v, branch --all, checkout or rm -rf (nor a clone): it
\* runs Update only and ends with Update's outcome, whatever sync-uri and
\* sync-branch are.
C3_TrustOnlyUpdates ==
    C3_Case =>
        /\ \A i \in 1..Len(log) : log[i].cmd \in {"rev-list", "pull"}
        /\ uri_ok = "unset"
        /\ branches = NoBranches
        /\ Ended => UpdateRan(log)

\* an unset option, a mirror whose origin is not the configured URI and a
\* configured branch: the call pulled and returned (0, true)
C3_Witness ==
    /\ C3_Case
    /\ Ended
    /\ repo.auto_sync_enforcing = "None"
    /\ repo.sync_uri # None
    /\ repo.sync_branch # None
    /\ fs.origin # repo.sync_uri
    /\ result = Ret(0, TRUE)

\* C4 (as claimed): when location lacks .git, synchronize issues the clone
\* command and never pull, remote -v, branch --all or checkout.
C4_NoMirrorClones ==
    (Ended /\ ~existed) => (Len(log) = 1 /\ log[1].cmd = "clone")

\* C4 (amended): when location lacks .git, synchronize never issues pull,
\* remote -v, branch --all, checkout or rm -rf, and it issues the clone
\* command, once, exactly when the location directory exists or is created
\* and sync-uri is set; when creating the directory fails it returns
\* (1, false) without issuing any command.
C4_NoMirrorClonesUnlessMkdirFails ==
    ~existed =>
        /\ \A i \in 1..Len(log) : log[i].cmd = "clone"
        /\ uri_ok = "unset"
        /\ branches = NoBranches
        /\ Ended =>
              /\ Len(log) <= 1
              /\ Len(log) = 1 <=> (mkdir # "IOError" /\ repo.sync_uri # None)
              /\ mkdir = "IOError" => result = Ret(1, FALSE)

\* the directory was there without .git, and the call cloned into it
C4_Witness ==
    /\ ~existed
    /\ Ended
    /\ mkdir = "skipped"
    /\ Len(log) = 1
    /\ log[1].cmd = "clone"
    /\ log[1].exit = 0
    /\ result = Ret(0, TRUE)

\* the call ended in an Update whose pull exited 0 and whose two revisions
\* were captured
C5_Case ==
    /\ Ended
    /\ Len(log) >= 3
    /\ LET n == Len(log)
       IN  /\ log[n - 2].cmd = "rev-list" /\ log[n - 2].exit = 0
           /\ log[n - 1].cmd = "pull" /\ log[n - 1].exit = 0
           /\ log[n].cmd = "rev-list" /\ log[n].exit = 0

\* C5: when the pull exits 0, Update returns status 0 and changed is true
\* exactly when the revision captured after the pull differs, as a string,
\* from the one captured before it.
C5_ChangedIffRevisionDiffers ==
    C5_Case =>
        /\ result.kind = "return"
        /\ result.status = 0
        /\ result.changed <=> (current_rev # previous_rev)

\* the pull exited 0, the head did not move and (0, false) was returned
C5_Witness ==
    /\ C5_Case
    /\ current_rev = previous_rev
    /\ result = Ret(0, FALSE)

\* C6 (as claimed): every outcome synchronize returns with a non-zero status
\* has changed = false.
C6_FailureIsUnchanged ==
    (Ended /\ result.kind = "return" /\ result.status # 0) => ~result.changed

\* branch reconciliation listed the branches
Reconciled == Ended /\ branches # NoBranches

\* the position of branch --all among the commands of the call
BranchProbe == CHOOSE k \in 1..Len(log) : log[k].cmd = "branch --all"

\* C7 (as claimed): when only a remote-tracking entry of the listing matches
\* sync-branch, checkout -b <branch> --track origin/<branch> is issued and
\* then Update is performed and its outcome returned.
C7_TrackingBranchCreated ==
    ( /\ Reconciled
      /\ repo.sync_branch \notin branches.locals
      /\ repo.sync_branch \in branches.tracking )
    => /\ Len(log) >= BranchProbe + 2
       /\ log[BranchProbe + 1].cmd = "checkout -b"
       /\ log[BranchProbe + 1].arg = repo.sync_branch
       /\ UpdateRan(SubSeq(log, BranchProbe + 2, Len(log)))

\* C8 (as claimed): when no entry of the listing matches sync-branch, no
\* checkout of either form is issued and Update is performed and its outcome
\* returned.
C8_NoMatchUpdates ==
    ( /\ Reconciled
      /\ repo.sync_branch \notin branches.locals
      /\ repo.sync_branch \notin branches.tracking )
    => /\ ~Issued("checkout")
       /\ ~Issued("checkout -b")
       /\ Len(log) >= BranchProbe + 1
       /\ UpdateRan(SubSeq(log, BranchProbe + 1, Len(log)))

\* C9 (as claimed): when the listing has a local entry, not checked out, named
\* sync-branch, checkout <branch> is issued before the pull and Update is
\* performed and its outcome returned whether the checkout succeeds or not.
C9_LocalBranchCheckedOut ==
    ( /\ Reconciled
      /\ repo.sync_branch \in branches.locals
      /\ repo.sync_branch # branches.cur )
    => /\ Len(log) >= BranchProbe + 2
       /\ log[BranchProbe + 1].cmd = "checkout"
       /\ log[BranchProbe + 1].arg = repo.sync_branch
       /\ UpdateRan(SubSeq(log, BranchProbe + 2, Len(log)))

\* sync_uri_check has just run: it returned to update(), or it raised
UriChecked ==
    \/ pc = "update_checked"
    \/ Ended /\ Len(log) = 1 /\ log[1].cmd = "remote -v"

\* C10 (as claimed): sync_uri_check returns true exactly when the listing has
\* an origin (fetch) entry whose address equals sync-uri, and returns a
\* not-matching value, never an exception, when remote -v fails or the listing
\* has no origin (fetch) entry.
C10_UriCheckMatchesOrigin ==
    UriChecked =>
        /\ result.kind # "raise"
        /\ uri_ok = "True" <=>
              /\ log[1].exit = 0
              /\ \E i \in 1..Len(remotes) :
                    remotes[i].name = S_origin /\ remotes[i].url = repo.sync_uri

\* the branch listing of the call failed
ProbeFailed ==
    /\ Ended
    /\ Issued("branch --all")
    /\ log[BranchProbe].exit # 0

\* C11 (as claimed): when branch --all fails, no checkout is issued and the
\* failure of the probe is not the failure of the call: a call that issues
\* nothing after the failed probe neither raises nor returns a non-zero
\* status.
C11_ProbeFailureSkipsSwitch ==
    ProbeFailed =>
        /\ ~Issued("checkout")
        /\ ~Issued("checkout -b")
        /\ BranchProbe = Len(log) => (result.kind = "return" /\ result.status = 0)

\* the call removed the mirror and rm -rf exited non-zero
C12_Case ==
    /\ Ended
    /\ Len(log) >= 2
    /\ log[2].cmd = "rm -rf"
    /\ log[2].exit # 0

\* C12: when rm -rf location exits non-zero on the URI-mismatch path, the
\* clone is still issued next, with the URI and options it has after a
\* successful removal, and the call returns the clone's outcome: (0, true)
\* when the clone exits 0, else the clone's exit code with changed = false.
C12_FailedRemovalStillClones ==
    C12_Case =>
        /\ log[1].cmd = "remote -v"
        /\ Len(log) = 3
        /\ log[3] = Cmd("clone", clone_uri(repo.sync_uri), clone_opts, log[3].exit)
        /\ result = IF log[3].exit = 0 THEN Ret(0, TRUE) ELSE Ret(log[3].exit, FALSE)

\* rm -rf exited 1, the clone exited 2, and (2, false) was returned
C12_Witness ==
    /\ C12_Case
    /\ log[2].exit = 1
    /\ Len(log) = 3
    /\ log[3].cmd = "clone"
    /\ log[3].exit = 2
    /\ result = Ret(2, FALSE)

\* the previous call ended in a successful clone, and this call, with the
\* same descriptor, listed the remotes of that clone
C13_Case ==
    /\ cloned
    /\ Len(log) >= 1
    /\ log[1].cmd = "remote -v"
    /\ log[1].exit = 0

\* C13 (as claimed): after a successful clone by synchronize, the URI check
\* of the next call with the same descriptor matches, for every sync-uri, one
\* with the file:// prefix included, and that call does not remove the mirror.
C13_CloneThenCheckMatches ==
    C13_Case => (uri_ok = "True" /\ ~Issued("rm -rf"))

\* how many times command c was spawned in the current call
Count(c) == Cardinality({i \in 1..Len(log) : log[i].cmd = c})

\* C14: nothing is retried within one call: the clone, the pull and the
\* removal are each issued at most once, and at most one checkout, of either
\* form, is issued, whatever the exit codes of the commands.
C14_NothingRetried ==
    /\ Count("clone") <= 1
    /\ Count("pull") <= 1
    /\ Count("rm -rf") <= 1
    /\ Count("checkout") + Count("checkout -b") <= 1

\* a call whose checkout failed and whose pull failed: each was issued once
C14_Witness ==
    /\ Ended
    /\ \E i, j \in 1..Len(log) :
          /\ log[i].cmd = "checkout" /\ log[i].exit # 0
          /\ log[j].cmd = "pull" /\ log[j].exit # 0
    /\ Count("checkout") = 1
    /\ Count("pull") = 1

\* the position of the pull among the commands of the call
Pull == CHOOSE k \in 1..Len(log) : log[k].cmd = "pull"

\* the call ended after a pull that exited non-zero
C15_Case ==
    /\ Ended
    /\ Issued("pull")
    /\ log[Pull].exit # 0

\* C15: when the pull exits non-zero, Update returns that exit code with
\* changed = false, and the head revision is queried once, before the pull,
\* and not again after it.
C15_FailedPullReturnsItsExit ==
    C15_Case =>
        /\ result = Ret(log[Pull].exit, FALSE)
        /\ Count("rev-list") = 1
        /\ Pull >= 2
        /\ log[Pull - 1].cmd = "rev-list"
        /\ Pull = Len(log)

\* the pull exited 2 after a checkout, and (2, false) was returned
C15_Witness ==
    /\ C15_Case
    /\ log[Pull].exit = 2
    /\ Issued("checkout")
    /\ result = Ret(2, FALSE)

\* C16: in every clone command, --depth <N> is present exactly when
\* --no-single-branch is, and both are present exactly when sync-depth is
\* set, N being sync-depth, whatever quiet, the extra clone options and
\* sync-branch are.
C16_DepthWithNoSingleBranch ==
    \A i \in 1..Len(log) :
        log[i].cmd = "clone" =>
            /\ log[i].opts.depth # None <=> log[i].opts.no_single_branch
            /\ log[i].opts.no_single_branch <=> repo.sync_depth # None
            /\ log[i].opts.depth = repo.sync_depth

\* a shallow clone without --quiet, extra options or a branch
C16_Witness ==
    /\ Len(log) = 1
    /\ log[1].cmd = "clone"
    /\ log[1].opts.depth # None
    /\ log[1].opts.no_single_branch
    /\ ~log[1].opts.quiet
    /\ log[1].opts.extra = None
    /\ log[1].opts.branch = None

\* an enforcing call on an existing mirror with sync-uri, sync-branch and
\* location all set
C17_Case ==
    /\ existed
    /\ repo.auto_sync_enforcing = "yes"
    /\ repo.sync_uri # None
    /\ repo.sync_branch # None
    /\ repo.location # None

\* C17: in enforcing mode with sync-uri, sync-branch and location set, the
\* URI check comes before any branch probe: branch --all is issued only
\* after remote -v and only when the URI check reported a match, and it is
\* issued whenever it did; the call then ends with what branch reconciliation
\* gives (its commands are the only ones that follow, no removal or clone).
\* After a reported mismatch no branch command is issued.
C17_UriCheckBeforeBranchProbe ==
    C17_Case =>
        /\ Issued("branch --all") =>
              /\ uri_ok = "True"
              /\ log[1].cmd = "remote -v"
              /\ BranchProbe = 2
              /\ \A i \in 3..Len(log) :
                    log[i].cmd \in {"checkout", "checkout -b", "rev-list", "pull"}
        /\ (Ended /\ uri_ok = "True") => Issued("branch --all")
        /\ uri_ok \in {"False", "None"} =>
              /\ ~Issued("branch --all")
              /\ ~Issued("checkout")
              /\ ~Issued("checkout -b")

\* the URI matched, the branch was listed and checked out, and the pull's
\* outcome (0, true) was returned
C17_Witness ==
    /\ C17_Case
    /\ Ended
    /\ uri_ok = "True"
    /\ Len(log) = 6
    /\ log[1].cmd = "remote -v"
    /\ log[2].cmd = "branch --all"
    /\ log[3].cmd = "checkout"
    /\ result = Ret(0, TRUE)

\* C18 (as claimed): when the listing marks as checked out a branch named
\* sync-branch, no checkout of either form is issued and Update is performed
\* and its outcome returned, whatever other entries, local or
\* remote-tracking, the listing has before or after the marked one.
C18_AtBranchUpdates ==
    (Reconciled /\ branches.cur = repo.sync_branch)
    => /\ ~Issued("checkout")
       /\ ~Issued("checkout -b")
       /\ Len(log) >= BranchProbe + 1
       /\ UpdateRan(SubSeq(log, BranchProbe + 1, Len(log)))

\* sync-uri without the prefix file://, all of the prefix and only it
WithoutFilePrefix(uri) ==
    IF startswith(uri, S_file) THEN slice_from(uri, Len(S_file)) ELSE uri

C20_RemovalOnlyOnMismatch ==
    /\ Issued("rm -rf") =>
          /\ existed
          /\ repo.auto_sync_enforcing = "yes"
          /\ repo.sync_uri # None
          /\ repo.location # None
          /\ log[1].cmd = "remote -v"
          /\ log[2].cmd = "rm -rf"
          /\ uri_ok \in {"False", "None"}
    /\ uri_ok = "True" => ~Issued("rm -rf")
    /\ (Issued("branch --all") \/ branches # NoBranches) => ~Issued("rm -rf")

\* remote -v failed, so the check returned false and the mirror was removed
C20_Witness ==
    /\ Ended
    /\ Issued("rm -rf")
    /\ log[1].cmd = "remote -v"
    /\ log[1].exit # 0
    /\ uri_ok = "False"
    /\ log[2].exit = 0
    /\ ~fs.git

====
